---- MODULE Spec2Model ----
(***************************************************************************)
(* One invocation of lambda_handler of Query_Processor_Lambda.py: the      *)
(* request is parsed and validated, the query is embedded, the vector      *)
(* index is searched, an answer is generated, the payload is shaped, the   *)
(* measurements are published and the response is returned.  Every         *)
(* exception raised inside the handler's try block reaches its except      *)
(* clause.  The external collaborators (secret store, embedding endpoint,  *)
(* vector index, chat endpoint, metrics backend) answer                    *)
(* nondeterministically; what they are asked and what they answered is     *)
(* kept in the logs calls and metrics.                                     *)
(*                                                                         *)
(* Text is a sequence of one-character strings, so that strip, slicing and *)
(* json.loads are computed and not assumed.                                *)
(***************************************************************************)
EXTENDS Integers, Sequences, FiniteSets, TLC

VARIABLES
    pc,             \* position in lambda_handler
    event,          \* the inbound event
    ENVIRONMENT,    \* os.environ's ENVIRONMENT entry
    start_time,     \* context.get_remaining_time_in_millis() at entry
    body,           \* the parsed request body
    query,          \* the stripped query
    query_embedding,
    similar_docs,
    answer,
    response_data,
    exc,            \* str(e) of the exception that reached the except clause
    response,       \* what the handler returned
    calls,          \* the calls made to the pipeline's functions and collaborators
    metrics         \* the put_metric_data requests made, in order

vars == <<pc, event, ENVIRONMENT, start_time, body, query, query_embedding,
          similar_docs, answer, response_data, exc, response, calls, metrics>>

---------------------------------------------------------------------------
(* Bounds of the model *)

MaxQueryLen == 2

MaxDocs == 2

(* Program constants *)

PreviewLen == 200

DefaultTopK == 5

HTTP_OK == 200

---------------------------------------------------------------------------
(* Text *)

Whitespace == {" ", "\t"}

QueryChars == {" ", "q"}

RECURSIVE lstrip(_)
lstrip(s) ==
    IF s # <<>> /\ Head(s) \in Whitespace THEN lstrip(Tail(s)) ELSE s

RECURSIVE rstrip(_)
rstrip(s) ==
    IF s # <<>> /\ s[Len(s)] \in Whitespace
    THEN rstrip(SubSeq(s, 1, Len(s) - 1))
    ELSE s

\* strip that leaves its argument as it is.
strip_noop(s) ==
    s

\* str.strip()
strip(s) ==
    rstrip(lstrip(s))

\* s[:n]
Slice(s, n) ==
    SubSeq(s, 1, IF Len(s) < n THEN Len(s) ELSE n)

Texts(n) ==
    UNION {[1..k -> QueryChars] : k \in 0..n}

---------------------------------------------------------------------------
(* Values a request body can hold.  t is the Python type; txt the text of  *)
(* a str; hasQuery, qt and q describe the 'query' entry of a dict.         *)

NoneV ==
    [t |-> "None", txt |-> <<>>, hasQuery |-> FALSE, qt |-> "None", q |-> <<>>]

ListV ==
    [t |-> "list", txt |-> <<>>, hasQuery |-> FALSE, qt |-> "None", q |-> <<>>]

EmptyDict ==
    [t |-> "dict", txt |-> <<>>, hasQuery |-> FALSE, qt |-> "None", q |-> <<>>]

DictQ(qt, q) ==
    [t |-> "dict", txt |-> <<>>, hasQuery |-> TRUE, qt |-> qt, q |-> q]

StrV(txt) ==
    [t |-> "str", txt |-> txt, hasQuery |-> FALSE, qt |-> "None", q |-> <<>>]

\* The structured bodies a caller can send.
StructuredBodies ==
    {NoneV, ListV, EmptyDict, DictQ("None", <<>>), DictQ("int", <<>>)}
        \cup {DictQ("str", s) : s \in Texts(MaxQueryLen) \cup {<<"\t">>, <<"\t", "q", "\t">>}}

\* JSON text is a sequence of tokens: punctuation, literals, the key and,
\* between two quote tokens, the characters of a string with a tab escaped.
EscapeChar(c) ==
    IF c = "\t" THEN "\\t" ELSE c

UnescapeChar(c) ==
    IF c = "\\t" THEN "\t" ELSE c

JsonText(v) ==
    CASE v.t = "None" -> <<"null">>
      [] v.t = "list" -> <<"[", "]">>
      [] v.t = "dict" /\ ~v.hasQuery -> <<"{", "}">>
      [] v.t = "dict" /\ v.hasQuery /\ v.qt = "None" ->
            <<"{", "\"query\"", ":", "null", "}">>
      [] v.t = "dict" /\ v.hasQuery /\ v.qt = "int" ->
            <<"{", "\"query\"", ":", "5", "}">>
      [] OTHER ->
            <<"{", "\"query\"", ":", "\"">>
                \o [i \in 1..Len(v.q) |-> EscapeChar(v.q[i])]
                \o <<"\"", "}">>

\* A string literal: a quote, characters none of which is a quote or a raw
\* control character, a quote.
IsStringLiteral(toks) ==
    /\ Len(toks) >= 2
    /\ toks[1] = "\""
    /\ toks[Len(toks)] = "\""
    /\ \A i \in 2..(Len(toks) - 1) : toks[i] \notin {"\"", "\t"}

StringOf(toks) ==
    [i \in 1..(Len(toks) - 2) |-> UnescapeChar(toks[i + 1])]

RaiseV(msg) ==
    [raised |-> TRUE, msg |-> msg, value |-> NoneV]

ReturnV(v) ==
    [raised |-> FALSE, msg |-> "", value |-> v]

\* json.loads
json_loads(toks) ==
    IF toks = <<"null">> THEN ReturnV(NoneV)
    ELSE IF toks = <<"[", "]">> THEN ReturnV(ListV)
    ELSE IF toks = <<"{", "}">> THEN ReturnV(EmptyDict)
    ELSE IF /\ Len(toks) >= 5
            /\ toks[1] = "{"
            /\ toks[2] = "\"query\""
            /\ toks[3] = ":"
            /\ toks[Len(toks)] = "}"
    THEN LET inner == SubSeq(toks, 4, Len(toks) - 1)
         IN  IF inner = <<"null">> THEN ReturnV(DictQ("None", <<>>))
             ELSE IF inner = <<"5">> THEN ReturnV(DictQ("int", <<>>))
             ELSE IF IsStringLiteral(inner)
                  THEN ReturnV(DictQ("str", StringOf(inner)))
                  ELSE RaiseV("Expecting value")
    ELSE RaiseV("Expecting value")

\* The raw bodies: the JSON text of every structured body, and two texts
\* that are not JSON.
RawBodies ==
    {StrV(JsonText(v)) : v \in StructuredBodies}
        \cup {StrV(<<"q">>), StrV(<<"{", "\"query\"", ":", "\"", "\t", "\"", "}">>)}

Events ==
    {[hasBody |-> FALSE, body |-> NoneV]}
        \cup {[hasBody |-> TRUE, body |-> b] : b \in StructuredBodies \cup RawBodies}

\* os.environ['ENVIRONMENT'], set or not.
Environments ==
    {[isSet |-> FALSE, val |-> ""]}
        \cup {[isSet |-> TRUE, val |-> v] : v \in {"dev", "prod", "staging"}}

\* os.environ.get(name, default)
environ_get(env, default) ==
    IF env.isSet THEN env.val ELSE default

---------------------------------------------------------------------------
(* Documents of the index: each of title, content and metadata may be      *)
(* absent from a hit's _source.                                            *)

Content(n) ==
    [i \in 1..n |-> IF i % 7 = 0 THEN "." ELSE "c"]

\* Content lengths on both sides of the preview's cut.
ContentLens ==
    {1, PreviewLen, PreviewLen + 1}

Doc(hasTitle, hasContent, n, hasMetadata) ==
    [hasTitle |-> hasTitle, title |-> IF hasTitle THEN "Guide" ELSE "",
     hasContent |-> hasContent, content |-> Content(n),
     hasMetadata |-> hasMetadata,
     metadata |-> IF hasMetadata THEN "{\"source\": \"kb\"}" ELSE ""]

Docs ==
    {Doc(FALSE, FALSE, 0, FALSE)}
        \cup {Doc(TRUE, TRUE, n, TRUE) : n \in ContentLens}

Min(a, b) ==
    IF a < b THEN a ELSE b

\* The hit lists the index can answer a query of size top_k with.
HitLists(top_k) ==
    UNION {[1..k -> {[_source |-> d] : d \in Docs}] : k \in 0..Min(MaxDocs, top_k)}

\* doc.get('title', 'Unknown')
doc_title(doc) ==
    IF doc.hasTitle THEN doc.title ELSE "Unknown"

\* doc.get('content', '')
doc_content(doc) ==
    IF doc.hasContent THEN doc.content ELSE <<>>

\* doc.get('metadata', {})
doc_metadata(doc) ==
    IF doc.hasMetadata THEN doc.metadata ELSE "{}"

Ellipsis ==
    <<".", ".", ".">>

\* The preview with the cut taken at 200 characters and not above.
content_preview_ge(doc) ==
    IF Len(doc_content(doc)) >= PreviewLen
    THEN Slice(doc_content(doc), PreviewLen) \o Ellipsis
    ELSE doc_content(doc)

\* doc.get('content', '')[:200] + '...' if len(doc.get('content', '')) > 200
\*     else doc.get('content', '')
content_preview(doc) ==
    IF Len(doc_content(doc)) > PreviewLen
    THEN Slice(doc_content(doc), PreviewLen) \o Ellipsis
    ELSE doc_content(doc)

\* One entry of response_data['sources'].
source_entry(doc) ==
    [title |-> doc_title(doc),
     content_preview |-> content_preview(doc),
     metadata |-> doc_metadata(doc)]

---------------------------------------------------------------------------
(* The collaborators' answers *)

\* Secrets Manager: the secret with its api_key, a failure of the store,
\* or a secret that holds no api_key.
SecretOutcomes ==
    {"ok", "raise", "no_api_key"}

StatusCodes ==
    {HTTP_OK, 429, 500}

\* requests.post: a timeout or connection error, or a response with a
\* status code whose body has the expected shape or not.
HttpOutcomes ==
    {[raised |-> TRUE, status |-> 0, wellFormed |-> FALSE]}
        \cup {[raised |-> FALSE, status |-> s, wellFormed |-> w] :
                s \in StatusCodes, w \in BOOLEAN}

EmbeddingVector ==
    <<1, 0>>

Answers ==
    {"RAG combines retrieval and generation.", "The context does not say."}

Call(name, ok) ==
    [name |-> name, ok |-> ok]

Raise(msg, cs) ==
    [raised |-> TRUE, msg |-> msg, calls |-> cs]

SecretErrorMsg ==
    "An error occurred (ResourceNotFoundException) when calling the GetSecretValue operation"

\* get_secret: the store's failure is logged and raised again.
get_secret(out) ==
    [raised |-> out = "raise",
     msg |-> IF out = "raise" THEN SecretErrorMsg ELSE "",
     has_api_key |-> out = "ok",
     calls |-> <<Call("get_secret", out # "raise")>>]

\* Every status below 500 taken for a success.
status_ok_lenient(status) ==
    status < 500

\* response.status_code == 200
status_ok(status) ==
    status = HTTP_OK

\* An except clause that logs the error and does not raise it again.
generate_embedding_swallow(raised) ==
    FALSE

\* The except clause of generate_embedding: the error is logged and raised
\* again.
generate_embedding_except(raised) ==
    raised

\* generate_embedding, given what the secret store and the embedding
\* endpoint answer.
generate_embedding(text, secretOut, http) ==
    LET secret == get_secret(secretOut)
        post == Call("POST /embeddings", ~http.raised /\ http.status = HTTP_OK)
        inner ==
            IF secret.raised THEN Raise(secret.msg, secret.calls)
            ELSE IF ~secret.has_api_key THEN Raise("'api_key'", secret.calls)
            ELSE IF http.raised
                 THEN Raise("HTTPSConnectionPool: Read timed out. (read timeout=30)",
                            secret.calls \o <<post>>)
            ELSE IF status_ok(http.status)
                 THEN IF http.wellFormed
                      THEN [raised |-> FALSE, msg |-> "", calls |-> secret.calls \o <<post>>]
                      ELSE Raise("'data'", secret.calls \o <<post>>)
            ELSE Raise("Embedding generation failed: " \o ToString(http.status),
                       secret.calls \o <<post>>)
        raised == generate_embedding_except(inner.raised)
    IN  [raised |-> raised,
         msg |-> IF raised THEN inner.msg ELSE "",
         value |-> IF inner.raised THEN <<>> ELSE EmbeddingVector,
         calls |-> <<Call("generate_embedding", ~raised)>> \o inner.calls]

\* search_similar_documents, given what the index answers: an error, or
\* the hits whose _source values are returned.
search_similar_documents(embedding, top_k, failed, hits) ==
    IF failed
    THEN [raised |-> TRUE, msg |-> "ConnectionTimeout caused by ReadTimeoutError",
          value |-> <<>>,
          calls |-> <<Call("search_similar_documents", FALSE),
                      Call("opensearch.search", FALSE)>>]
    ELSE [raised |-> FALSE, msg |-> "",
          value |-> [i \in 1..Len(hits) |-> hits[i]._source],
          calls |-> <<Call("search_similar_documents", TRUE),
                      Call("opensearch.search", TRUE)>>]

\* generate_rag_response, given what the secret store and the chat endpoint
\* answer; text is the first completion's content.
generate_rag_response(q, context_documents, secretOut, http, text) ==
    LET secret == get_secret(secretOut)
        post == Call("POST /chat/completions", ~http.raised /\ http.status = HTTP_OK)
        fn(ok) == <<Call("generate_rag_response", ok)>>
    IN  IF secret.raised
        THEN [raised |-> TRUE, msg |-> secret.msg, value |-> "",
              calls |-> fn(FALSE) \o secret.calls]
        ELSE IF ~secret.has_api_key
        THEN [raised |-> TRUE, msg |-> "'api_key'", value |-> "",
              calls |-> fn(FALSE) \o secret.calls]
        ELSE IF http.raised
        THEN [raised |-> TRUE,
              msg |-> "HTTPSConnectionPool: Read timed out. (read timeout=60)",
              value |-> "", calls |-> fn(FALSE) \o secret.calls \o <<post>>]
        ELSE IF status_ok(http.status)
        THEN IF http.wellFormed
             THEN [raised |-> FALSE, msg |-> "", value |-> text,
                   calls |-> fn(TRUE) \o secret.calls \o <<post>>]
             ELSE [raised |-> TRUE, msg |-> "'choices'", value |-> "",
                   calls |-> fn(FALSE) \o secret.calls \o <<post>>]
        ELSE [raised |-> TRUE,
              msg |-> "LLM response generation failed: " \o ToString(http.status),
              value |-> "", calls |-> fn(FALSE) \o secret.calls \o <<post>>]

\* A publish_metrics that lets the failure of put_metric_data through.
publish_metrics_propagates(delivered) ==
    ~delivered

\* The except clause of publish_metrics: a failure of put_metric_data is
\* logged and not raised.
publish_metrics_raises(delivered) ==
    FALSE

\* publish_metrics: one put_metric_data request, delivered or not.  Value
\* is a fraction <<numerator, denominator>>.
publish_metrics(log, env, metric_name, value, unit, delivered) ==
    [metrics |-> Append(log, [MetricName |-> metric_name,
                              Value |-> value,
                              Unit |-> unit,
                              Environment |-> environ_get(env, "dev"),
                              delivered |-> delivered]),
     raised |-> publish_metrics_raises(delivered)]

---------------------------------------------------------------------------
(* lambda_handler *)

Headers ==
    [ContentType |-> "application/json", AccessControlAllowOrigin |-> "*"]

Response(status, b) ==
    [statusCode |-> status, headers |-> Headers, body |-> b]

\* No response yet.
NoResponse ==
    [statusCode |-> 0, headers |-> Headers, body |-> [pending |-> TRUE]]

\* The exception left the handler: the runtime reports the invocation as
\* failed and the handler returned nothing.
Unhandled ==
    [statusCode |-> -1, headers |-> Headers, body |-> [unhandled |-> TRUE]]

CannedAnswer ==
    "I could not find relevant information to answer your question."

GenericMessage ==
    "An error occurred processing your request"

\* The detail shown everywhere but under the production label.
ExposeDetailUnlessProd(env) ==
    ~(env.isSet /\ env.val = "prod")

\* os.environ.get('ENVIRONMENT') == 'dev'
ExposeDetail(env) ==
    env.isSet /\ env.val = "dev"

\* A test for an empty result that never finds one.
NoDocumentsNever(docs) ==
    FALSE

\* not similar_docs
NoDocuments(docs) ==
    docs = <<>>

\* The remaining-time samples at entry and before the measurements.
RemainingAtEntry ==
    {3000}

ElapsedMillis ==
    {1500}

Init ==
    /\ pc = "parse"
    /\ event \in Events
    /\ ENVIRONMENT \in Environments
    /\ start_time \in RemainingAtEntry
    /\ body = NoneV
    /\ query = <<>>
    /\ query_embedding = <<>>
    /\ similar_docs = <<>>
    /\ answer = ""
    /\ response_data = [answer |-> "", sources |-> <<>>, query |-> <<>>]
    /\ exc = ""
    /\ response = NoResponse
    /\ calls = <<>>
    /\ metrics = <<>>

\* type(v).__name__, as it appears in an AttributeError.
type_name(t) ==
    IF t = "None" THEN "NoneType" ELSE t

\* An exception raised inside the try block.
Throw(msg) ==
    /\ exc' = msg
    /\ pc' = "except"

\* Lines 196-200: the body is decoded when it is a str, taken as it is
\* otherwise; a missing body key gives {}.
ParseBody ==
    /\ pc = "parse"
    /\ IF event.hasBody /\ event.body.t = "str"
       THEN LET r == json_loads(event.body.txt)
            IN  IF r.raised
                THEN Throw(r.msg) /\ UNCHANGED body
                ELSE body' = r.value /\ pc' = "validate" /\ UNCHANGED exc
       ELSE /\ body' = IF event.hasBody THEN event.body ELSE EmptyDict
            /\ pc' = "validate"
            /\ UNCHANGED exc
    /\ UNCHANGED <<event, ENVIRONMENT, start_time, query, query_embedding, similar_docs,
                   answer, response_data, response, calls, metrics>>

\* Lines 202-213: body.get('query', '').strip(), and the 400 response for
\* an empty query.
Validate ==
    /\ pc = "validate"
    /\ IF body.t # "dict"
       THEN /\ Throw("'" \o type_name(body.t) \o "' object has no attribute 'get'")
            /\ UNCHANGED <<query, response>>
       ELSE IF body.hasQuery /\ body.qt # "str"
       THEN /\ Throw("'" \o type_name(body.qt) \o "' object has no attribute 'strip'")
            /\ UNCHANGED <<query, response>>
       ELSE LET q == strip(IF body.hasQuery THEN body.q ELSE <<>>)
            IN  /\ query' = q
                /\ UNCHANGED exc
                /\ IF q = <<>>
                   THEN /\ response' = Response(400, [error |-> "Query is required"])
                        /\ pc' = "done"
                   ELSE /\ pc' = "embed"
                        /\ UNCHANGED response
    /\ UNCHANGED <<event, ENVIRONMENT, start_time, body, query_embedding, similar_docs,
                   answer, response_data, calls, metrics>>

\* Line 216: query_embedding = generate_embedding(query)
GenerateEmbedding ==
    /\ pc = "embed"
    /\ \E secretOut \in SecretOutcomes, http \in HttpOutcomes :
          LET r == generate_embedding(query, secretOut, http)
          IN  /\ calls' = calls \o r.calls
              /\ IF r.raised
                 THEN Throw(r.msg) /\ UNCHANGED query_embedding
                 ELSE /\ query_embedding' = r.value
                      /\ pc' = "search"
                      /\ UNCHANGED exc
    /\ UNCHANGED <<event, ENVIRONMENT, start_time, body, query, similar_docs, answer,
                   response_data, response, metrics>>

\* Line 219: similar_docs = search_similar_documents(query_embedding)
SearchSimilarDocuments ==
    /\ pc = "search"
    /\ \E failed \in BOOLEAN, hits \in HitLists(DefaultTopK) :
          LET r == search_similar_documents(query_embedding, DefaultTopK, failed, hits)
          IN  /\ calls' = calls \o r.calls
              /\ IF r.raised
                 THEN Throw(r.msg) /\ UNCHANGED similar_docs
                 ELSE /\ similar_docs' = r.value
                      /\ pc' = "check_docs"
                      /\ UNCHANGED exc
    /\ UNCHANGED <<event, ENVIRONMENT, start_time, body, query, query_embedding, answer,
                   response_data, response, metrics>>

\* Lines 221-232: the canned answer when nothing was found.
CheckDocuments ==
    /\ pc = "check_docs"
    /\ IF NoDocuments(similar_docs)
       THEN /\ response' = Response(200, [answer |-> CannedAnswer, sources |-> <<>>])
            /\ pc' = "done"
       ELSE /\ pc' = "generate"
            /\ UNCHANGED response
    /\ UNCHANGED <<event, ENVIRONMENT, start_time, body, query, query_embedding,
                   similar_docs, answer, response_data, exc, calls, metrics>>

\* Line 235: answer = generate_rag_response(query, similar_docs)
GenerateRagResponse ==
    /\ pc = "generate"
    /\ \E secretOut \in SecretOutcomes, http \in HttpOutcomes, text \in Answers :
          LET r == generate_rag_response(query, similar_docs, secretOut, http, text)
          IN  /\ calls' = calls \o r.calls
              /\ IF r.raised
                 THEN Throw(r.msg) /\ UNCHANGED answer
                 ELSE /\ answer' = r.value
                      /\ pc' = "prepare"
                      /\ UNCHANGED exc
    /\ UNCHANGED <<event, ENVIRONMENT, start_time, body, query, query_embedding,
                   similar_docs, response_data, response, metrics>>

\* Lines 238-249: response_data
PrepareResponse ==
    /\ pc = "prepare"
    /\ response_data' =
          [answer |-> answer,
           sources |-> [i \in 1..Len(similar_docs) |-> source_entry(similar_docs[i])],
           query |-> query]
    /\ pc' = "pub_time"
    /\ UNCHANGED <<event, ENVIRONMENT, start_time, body, query, query_embedding,
                   similar_docs, answer, exc, response, calls, metrics>>

\* One publish_metrics call of the try block, and where the handler goes
\* next.
Publish(metric_name, value, unit, next) ==
    \E delivered \in BOOLEAN :
        LET r == publish_metrics(metrics, ENVIRONMENT, metric_name, value, unit, delivered)
        IN  /\ metrics' = r.metrics
            /\ IF r.raised
               THEN Throw("Could not connect to the endpoint URL")
               ELSE pc' = next /\ UNCHANGED exc

\* Lines 252-253: the processing time, in seconds, from the two samples of
\* the remaining time in milliseconds.
PublishProcessingTime ==
    /\ pc = "pub_time"
    /\ \E elapsed \in ElapsedMillis :
          LET now == start_time - elapsed
          IN  Publish("QueryProcessingTime", <<start_time - now, 1000>>, "Seconds",
                      "pub_docs")
    /\ UNCHANGED <<event, ENVIRONMENT, start_time, body, query, query_embedding,
                   similar_docs, answer, response_data, response, calls>>

\* Line 254
PublishDocumentsRetrieved ==
    /\ pc = "pub_docs"
    /\ Publish("DocumentsRetrieved", <<Len(similar_docs), 1>>, "Count", "pub_count")
    /\ UNCHANGED <<event, ENVIRONMENT, start_time, body, query, query_embedding,
                   similar_docs, answer, response_data, response, calls>>

\* Line 255
PublishQueriesProcessed ==
    /\ pc = "pub_count"
    /\ Publish("QueriesProcessed", <<1, 1>>, "Count", "return")
    /\ UNCHANGED <<event, ENVIRONMENT, start_time, body, query, query_embedding,
                   similar_docs, answer, response_data, response, calls>>

\* Lines 257-264: the 200 response; json.dumps(response_data) raises for a
\* payload it cannot encode.
ReturnSuccess ==
    /\ pc = "return"
    /\ \E encoded \in BOOLEAN :
          IF encoded
          THEN /\ response' = Response(200, response_data)
               /\ pc' = "done"
               /\ UNCHANGED exc
          ELSE /\ Throw("Object is not JSON serializable")
               /\ UNCHANGED response
    /\ UNCHANGED <<event, ENVIRONMENT, start_time, body, query, query_embedding,
                   similar_docs, answer, response_data, calls, metrics>>

\* Lines 266-282: the except clause publishes QueryErrors and returns the
\* 500 response.
HandleException ==
    /\ pc = "except"
    /\ \E delivered \in BOOLEAN :
          LET r == publish_metrics(metrics, ENVIRONMENT, "QueryErrors", <<1, 1>>, "Count",
                                   delivered)
          IN  /\ metrics' = r.metrics
              /\ response' =
                    IF r.raised
                    THEN Unhandled
                    ELSE Response(500,
                                  [error |-> "Internal server error",
                                   message |-> IF ExposeDetail(ENVIRONMENT)
                                               THEN exc
                                               ELSE GenericMessage])
    /\ pc' = "done"
    /\ UNCHANGED <<event, ENVIRONMENT, start_time, body, query, query_embedding,
                   similar_docs, answer, response_data, exc, calls>>

Next ==
    \/ ParseBody
    \/ Validate
    \/ GenerateEmbedding
    \/ SearchSimilarDocuments
    \/ CheckDocuments
    \/ GenerateRagResponse
    \/ PrepareResponse
    \/ PublishProcessingTime
    \/ PublishDocumentsRetrieved
    \/ PublishQueriesProcessed
    \/ ReturnSuccess
    \/ HandleException

Spec ==
    Init /\ [][Next]_vars

---------------------------------------------------------------------------
(* Properties *)

\* The body as the caller sent it, decoded when it was sent as JSON text.
SentBody ==
    IF ~event.hasBody THEN EmptyDict
    ELSE IF event.body.t = "str" THEN json_loads(event.body.txt).value
    ELSE event.body

SentAsText ==
    event.hasBody /\ event.body.t = "str"

\* The query field is a string with no character other than whitespace.
BlankQuery ==
    /\ event.hasBody
    /\ ~(SentAsText /\ json_loads(event.body.txt).raised)
    /\ SentBody.t = "dict"
    /\ SentBody.hasQuery
    /\ SentBody.qt = "str"
    /\ \A i \in 1..Len(SentBody.q) : SentBody.q[i] \in Whitespace

\* The request carries no query at all.
MissingQuery ==
    \/ ~event.hasBody
    \/ event.body = NoneV
    \/ /\ ~(SentAsText /\ json_loads(event.body.txt).raised)
       /\ SentBody.t = "dict"
       /\ ~SentBody.hasQuery

ValidationError ==
    Response(400, [error |-> "Query is required"])

Functions ==
    {"generate_embedding", "search_similar_documents", "generate_rag_response"}

IsFunctionCall(c) ==
    c.name \in Functions

FunctionCalls ==
    SelectSeq(calls, IsFunctionCall)

CallCount(name) ==
    Cardinality({i \in 1..Len(calls) : calls[i].name = name})

Called(name) ==
    CallCount(name) > 0

Succeeded(name) ==
    \E i \in 1..Len(calls) : calls[i].name = name /\ calls[i].ok

MetricCount(name) ==
    Cardinality({i \in 1..Len(metrics) : metrics[i].MetricName = name})

MetricNames ==
    [i \in 1..Len(metrics) |-> metrics[i].MetricName]

SuccessMetrics ==
    <<"QueryProcessingTime", "DocumentsRetrieved", "QueriesProcessed">>

\* Embedding, search with at least one document and generation succeeded.
StagesSucceeded ==
    /\ Succeeded("generate_embedding")
    /\ Succeeded("search_similar_documents")
    /\ similar_docs # <<>>
    /\ Succeeded("generate_rag_response")

\* A stage after validation failed: a function of the pipeline raised, or
\* a collaborator it called failed or answered with a status other than 200.
StageFailed ==
    \E i \in 1..Len(calls) : ~calls[i].ok

\* C1: a query that is a string empty after trimming is answered with
\* exactly the 400 validation error, and at no point of the invocation is
\* a collaborator called or a measurement published.
C1_BlankQueryRejected ==
    BlankQuery =>
        /\ calls = <<>>
        /\ metrics = <<>>
        /\ pc \in {"parse", "validate", "done"}
        /\ pc = "done" => response = ValidationError

C1_Witness ==
    /\ pc = "done"
    /\ BlankQuery
    /\ SentAsText
    /\ Len(SentBody.q) = MaxQueryLen
    /\ response = ValidationError

\* C2: a request with a missing query (no body key, a null body, an object
\* without a query key, or JSON text of such an object) is answered with
\* the 400 validation error and never with the 500 response.
C2_MissingQueryRejected ==
    (pc = "done" /\ MissingQuery) => response = ValidationError

\* C3: when the search returns no document the handler returns status 200
\* with the canned answer and no sources, and generate_rag_response and
\* its secret fetch are never called.
C3_NoDocumentsShortCircuit ==
    (Succeeded("search_similar_documents") /\ similar_docs = <<>> /\ pc # "check_docs") =>
        /\ pc = "done"
        /\ response = Response(200, [answer |-> CannedAnswer, sources |-> <<>>])
        /\ ~Called("generate_rag_response")
        /\ ~Called("POST /chat/completions")
        /\ CallCount("get_secret") = 1
        /\ metrics = <<>>

C3_Witness ==
    /\ pc = "done"
    /\ Succeeded("search_similar_documents")
    /\ similar_docs = <<>>
    /\ response.statusCode = 200

\* The preview the documentation describes for a content c: its first
\* PreviewLen characters and an ellipsis when c is longer, c otherwise.
IsPreviewOf(p, c) ==
    /\ Len(c) > PreviewLen =>
          /\ Len(p) = PreviewLen + 3
          /\ SubSeq(p, 1, PreviewLen) = SubSeq(c, 1, PreviewLen)
          /\ SubSeq(p, PreviewLen + 1, PreviewLen + 3) = <<".", ".", ".">>
    /\ Len(c) <= PreviewLen => p = c

\* C4: once the payload of a successful pipeline is shaped, its sources
\* are as many as the documents the search returned, in their order, each
\* with the preview of its document's content (of the empty string when the
\* content is absent); the 200 response carries these sources.
C4_SourcesAndPreviews ==
    (StagesSucceeded /\ pc # "prepare") =>
        /\ Len(response_data.sources) = Len(similar_docs)
        /\ \A i \in 1..Len(similar_docs) :
              LET d == similar_docs[i]
                  e == response_data.sources[i]
              IN  /\ IsPreviewOf(e.content_preview,
                                 IF d.hasContent THEN d.content ELSE <<>>)
                  /\ e.title = IF d.hasTitle THEN d.title ELSE "Unknown"
        /\ (pc = "done" /\ response.statusCode = 200) =>
              response.body.sources = response_data.sources

C4_Witness ==
    /\ pc = "done"
    /\ response.statusCode = 200
    /\ Len(response.body.sources) = MaxDocs
    /\ \E i, j \in 1..Len(similar_docs) :
          /\ Len(similar_docs[i].content) = PreviewLen + 1
          /\ Len(response.body.sources[i].content_preview) = PreviewLen + 3
          /\ ~similar_docs[j].hasContent
          /\ response.body.sources[j].content_preview = <<>>

InternalError(message) ==
    Response(500, [error |-> "Internal server error", message |-> message])

\* C5: when a stage after validation fails (the secret store, the
\* embedding call and its non-200 answers, the search, the generation) the
\* invocation ends with the 500 response whose error is "Internal server
\* error", and QueryErrors is published exactly once in it.
C5_StageFailureIsInternalError ==
    StageFailed =>
        /\ MetricCount("QueryErrors") <= 1
        /\ pc = "done" =>
              /\ response.statusCode = 500
              /\ response.body.error = "Internal server error"
              /\ MetricCount("QueryErrors") = 1
              /\ metrics[Len(metrics)].Value = <<1, 1>>

C5_Witness ==
    /\ pc = "done"
    /\ \E i \in 1..Len(calls) : calls[i].name = "POST /embeddings" /\ ~calls[i].ok
    /\ exc = "Embedding generation failed: 500"
    /\ response.statusCode = 500
    /\ MetricNames = <<"QueryErrors">>

\* C6 as stated: in the 500 response the message is the failure's text
\* under every ENVIRONMENT other than the production label, the unset one
\* included, and the fixed generic string under the production label.
C6_DetailUnlessProduction ==
    (pc = "done" /\ response.statusCode = 500) =>
        response.body.message =
            IF ENVIRONMENT.isSet /\ ENVIRONMENT.val = "prod"
            THEN GenericMessage
            ELSE exc

\* C6, amended: in the 500 response the message is the failure's text when
\* ENVIRONMENT is set to 'dev'; under every other label, and when
\* ENVIRONMENT is unset (where the measurements are still tagged 'dev'), the
\* body is the same fixed one whatever the failure was.
C6_DetailOnlyInDev ==
    (pc = "done" /\ response.statusCode = 500) =>
        /\ (ENVIRONMENT.isSet /\ ENVIRONMENT.val = "dev") =>
              response.body.message = exc /\ exc # ""
        /\ (~ENVIRONMENT.isSet \/ ENVIRONMENT.val \in {"prod", "staging"}) =>
              response = InternalError("An error occurred processing your request")

C6_Witness ==
    /\ pc = "done"
    /\ response.statusCode = 500
    /\ ~ENVIRONMENT.isSet
    /\ exc = "LLM response generation failed: 429"
    /\ metrics[Len(metrics)].Environment = "dev"
    /\ response.body.message = GenericMessage

\* What the handler returns, from everything but the metrics backend's
\* answers.
ResponseWithoutMetrics ==
    IF exc # ""
    THEN InternalError(IF ENVIRONMENT = [isSet |-> TRUE, val |-> "dev"]
                       THEN exc
                       ELSE GenericMessage)
    ELSE IF ~Called("generate_embedding") THEN ValidationError
    ELSE IF ~Called("generate_rag_response")
    THEN Response(200, [answer |-> CannedAnswer, sources |-> <<>>])
    ELSE Response(200, response_data)

\* C7: a failure of the metrics backend never escalates: no exception of
\* the handler comes from a publication, the response is the one the rest
\* of the invocation decides whether the publications are delivered or
\* not, and an undelivered publication is followed by the later ones.
C7_MetricsFailuresIsolated ==
    /\ exc # "Could not connect to the endpoint URL"
    /\ response # Unhandled
    /\ pc = "done" =>
          /\ response = ResponseWithoutMetrics
          /\ MetricCount("QueryProcessingTime") = 1 =>
                /\ Len(metrics) >= 3
                /\ SubSeq(MetricNames, 1, 3) = SuccessMetrics

C7_Witness ==
    /\ pc = "done"
    /\ response.statusCode = 200
    /\ MetricNames = SuccessMetrics
    /\ ~metrics[1].delivered
    /\ ~metrics[2].delivered
    /\ metrics[3].delivered

\* C8: when embedding, search with at least one document and generation
\* succeed, exactly QueryProcessingTime (Seconds), DocumentsRetrieved (the
\* number of documents) and QueriesProcessed (1) are published, in this
\* order, and the response is status 200 with the generated answer and the
\* trimmed query.
C8_SuccessMeasurements ==
    (pc = "done" /\ StagesSucceeded) =>
        /\ MetricNames = SuccessMetrics
        /\ metrics[1].Unit = "Seconds"
        /\ metrics[2].Value = <<Len(similar_docs), 1>>
        /\ metrics[3].Value = <<1, 1>>
        /\ response.statusCode = 200
        /\ response.body.answer = answer
        /\ response.body.query = query

\* C9: the functions of the pipeline are called in the order embed,
\* search, generate, each at most once and each only after the one before
\* it succeeded (the search with a document); after a failure of a
\* function or of a collaborator no later stage is called.
C9_StagesInOrder ==
    /\ Len(FunctionCalls) <= 3
    /\ \A i \in 1..Len(FunctionCalls) :
          FunctionCalls[i].name =
              <<"generate_embedding", "search_similar_documents",
                "generate_rag_response">>[i]
    /\ \A i \in 1..(Len(FunctionCalls) - 1) : FunctionCalls[i].ok
    /\ Called("generate_rag_response") => similar_docs # <<>>
    /\ \A n \in {"POST /embeddings", "opensearch.search", "POST /chat/completions"} :
          CallCount(n) <= 1
    /\ \A i \in 1..Len(calls) :
          ~calls[i].ok => \A j \in (i + 1)..Len(calls) : ~IsFunctionCall(calls[j])

C9_Witness ==
    /\ pc = "done"
    /\ [i \in 1..Len(calls) |-> calls[i].name] =
          <<"generate_embedding", "get_secret", "POST /embeddings",
            "search_similar_documents", "opensearch.search",
            "generate_rag_response", "get_secret", "POST /chat/completions">>
    /\ ~calls[Len(calls)].ok
    /\ response.statusCode = 500

\* C10: the measurements agree with the response: QueryErrors only in an
\* invocation that returns 500, the three success measurements only in one
\* that returns 200 with a generated answer, and never QueriesProcessed
\* and QueryErrors in the same invocation.
C10_MetricsAgreeWithResponse ==
    pc = "done" =>
        /\ MetricCount("QueryErrors") > 0 => response.statusCode = 500
        /\ (\E i \in 1..3 : MetricCount(SuccessMetrics[i]) > 0) =>
              /\ response.statusCode = 200
              /\ response.body.answer = answer
        /\ ~(MetricCount("QueriesProcessed") > 0 /\ MetricCount("QueryErrors") > 0)

====
